---- MODULE Spec2Model ----
(***************************************************************************)
(* Batch molecular-dynamics driver of MACEMD: the NaiMLeSS package         *)
(* (naimless/main.py, naimless/md/mace_md/mace_md.py) and the stand-alone  *)
(* script run_mace.py.  A batch of jobs is dispatched over a process pool  *)
(* (or a serial loop); each job reads its structure, builds a calculator   *)
(* on a device, reconciles with the trajectory file of an earlier attempt  *)
(* and runs the stepper, whose observers append frames and time-log lines. *)
(***************************************************************************)
EXTENDS Integers, Sequences, FiniteSets, TLC

\* ------------------------------------------------------------------ bounds
MaxJobs == 3
MaxDevices == 2
MaxSteps == 4
MaxStride == 2
MaxFrames == 3
MaxAtoms == 2

Max(a, b) == IF a >= b THEN a ELSE b

\* ------------------------------------------------------- physical state
\* positions and velocities per atom, cell, periodic flags (abstract values)
Uniform(n, v) == [a \in 1..n |-> v]

\* info['E'] and arrays['frc'] are the entries the QM observers set; Unset
\* stands for an entry that is not there
Unset == -1

AtomsState(n, v, c) == [pos |-> Uniform(n, v), vel |-> Uniform(n, v), cell |-> c, pbc |-> c, E |-> Unset, frc |-> Unset]

\* Atoms.wrap(): the positions are mapped into the periodic box
Box == 4

wrap(atoms) == [atoms EXCEPT !.pos = [a \in DOMAIN atoms.pos |-> atoms.pos[a] % Box]]

\* the potential's energy and forces of a configuration (abstract values,
\* the same for all periodic images); the results the calculator holds
ml_energy(atoms) == 10 + (IF atoms.pos = <<>> THEN 0 ELSE atoms.pos[1] % Box)

ml_forces(atoms) == 20 + (IF atoms.pos = <<>> THEN 0 ELSE atoms.pos[1] % Box)

\* the extended-xyz writer prints the per-atom columns with "%16.8f": a value
\* is rounded to the nearest multiple of the format's resolution
Res == 2

fmt(v) == ((v + (Res \div 2)) \div Res) * Res

\* the structure as read_structure leaves it: pbc and cell from the
\* configuration, positions of the input file (n atoms)
InputAtoms(n) == AtomsState(n, 0, 0)

\* ------------------------------------------------------- trajectory file
\* one extended-xyz frame as atoms.write(filename, append=True) prints it:
\* the atom-count line, the comment line (cell, pbc, the calculator's energy
\* and forces, info['E'], arrays['frc']) and one line per atom (position,
\* velocity, both in the column format)
FrameLinesOf(at, energy, forces) ==
    << <<"hdr", Len(at.pos), 0>>,
       <<"cmt", at.cell, at.pbc, energy, forces, at.E, at.frc>> >>
      \o [a \in 1..Len(at.pos) |-> <<"atom", fmt(at.pos[a]), fmt(at.vel[a])>>]

FrameLines(at) == FrameLinesOf(at, ml_energy(at), ml_forces(at))

NoFile == [exists |-> FALSE, lines |-> <<>>]

File(ls) == [exists |-> TRUE, lines |-> ls]

\* ase.io.read(trj_file, ":") on the lines of an existing file: every frame
\* is a count line N, a comment line and N atom lines; anything else raises
RECURSIVE ReadFrom(_, _, _)
ReadFrom(lines, p, acc) ==
    IF p > Len(lines) THEN [ok |-> TRUE, frames |-> acc]
    ELSE IF lines[p][1] # "hdr" THEN [ok |-> FALSE, frames |-> <<>>]
    ELSE LET n == lines[p][2] IN
         IF p + 1 + n > Len(lines) THEN [ok |-> FALSE, frames |-> <<>>]
         ELSE IF lines[p + 1][1] # "cmt"
                 \/ \E a \in 1..n : lines[p + 1 + a][1] # "atom"
              THEN [ok |-> FALSE, frames |-> <<>>]
         ELSE ReadFrom(lines, p + 2 + n,
                       Append(acc, [pos  |-> [a \in 1..n |-> lines[p + 1 + a][2]],
                                    vel  |-> [a \in 1..n |-> lines[p + 1 + a][3]],
                                    cell |-> lines[p + 1][2],
                                    pbc  |-> lines[p + 1][3],
                                    energy |-> lines[p + 1][4],
                                    forces |-> lines[p + 1][5],
                                    E    |-> lines[p + 1][6],
                                    frc  |-> lines[p + 1][7]]))

read(lines) == ReadFrom(lines, 1, <<>>)

\* the repair of restart_md / run_dyn: whole frames by the count of line 1
nsnapshots_of(lines) == Len(lines) \div (lines[1][2] + 2)

\* variant: the frame before the partial one is dropped too
newfile_drops_last_frame(lines) ==
    SubSeq(lines, 1, (nsnapshots_of(lines) - 1) * (lines[1][2] + 2))

\* variant: only the last line is dropped
newfile_drops_last_line(lines) == SubSeq(lines, 1, Len(lines) - 1)

\* variant: the whole frames but the first are kept
newfile_skips_first_frame(lines) ==
    SubSeq(lines, lines[1][2] + 3, nsnapshots_of(lines) * (lines[1][2] + 2))

newfile_of(lines) == SubSeq(lines, 1, nsnapshots_of(lines) * (lines[1][2] + 2))

\* ------------------------------------------------------------ reconcilers
\* The result of a reconciliation: the file as it is left, the atoms of the
\* stepper, the step count handed to dyn.run, what was printed (verdict:
\* "complete" = "... is complete. Skipping.", "resume" = "Restarting ...",
\* "new" = "Error reading restart file ... Starting new simulation.") and
\* whether the file was rewritten by the repair.
Outcome(trj, atoms, nsteps, verdict, repaired) ==
    [trj |-> trj, atoms |-> atoms, nsteps |-> nsteps, verdict |-> verdict,
     repaired |-> repaired]

\* variant: the handler leaves the job with nothing to run
restart_except_no_steps(trj, atoms, nsteps, repaired) ==
    [trj |-> trj, atoms |-> atoms, nsteps |-> 0, verdict |-> "new",
     repaired |-> repaired]

\* the four setters of the restart: positions, velocities, cell and pbc of the
\* last snapshot are put on the stepper's atoms; info and arrays stay
seed(atoms, last) ==
    [atoms EXCEPT !.pos = last.pos, !.vel = last.vel, !.cell = last.cell,
                  !.pbc = last.pbc]

\* mace_md.py restart_md, lines 181-183: any exception of the try block is
\* printed and the full step count is taken ("Starting new simulation")
restart_except(trj, atoms, nsteps, repaired) ==
    Outcome(trj, atoms, nsteps, "new", repaired)

\* variant: the threshold is compared with > instead of >=
restart_decide_strict(trj, rst_atoms, atoms, nsteps, stride, repaired) ==
    LET n == Len(rst_atoms)
    IN IF n > nsteps \div stride
       THEN [trj |-> trj, atoms |-> atoms, nsteps |-> 0, verdict |-> "complete",
             repaired |-> repaired]
       ELSE IF n = 0 \/ Len(rst_atoms[n].pos) # Len(atoms.pos)
       THEN [trj |-> trj, atoms |-> atoms, nsteps |-> nsteps, verdict |-> "new",
             repaired |-> repaired]
       ELSE [trj |-> trj, atoms |-> seed(atoms, rst_atoms[n]),
             nsteps |-> nsteps - n * stride,
             verdict |-> "resume", repaired |-> repaired]

\* variant: the frames are counted as steps
restart_decide_ignores_stride(trj, rst_atoms, atoms, nsteps, stride, repaired) ==
    LET n == Len(rst_atoms)
    IN IF n >= nsteps \div stride
       THEN [trj |-> trj, atoms |-> atoms, nsteps |-> 0, verdict |-> "complete",
             repaired |-> repaired]
       ELSE IF n = 0 \/ Len(rst_atoms[n].pos) # Len(atoms.pos)
       THEN [trj |-> trj, atoms |-> atoms, nsteps |-> nsteps, verdict |-> "new",
             repaired |-> repaired]
       ELSE [trj |-> trj, atoms |-> seed(atoms, rst_atoms[n]),
             nsteps |-> nsteps - n,
             verdict |-> "resume", repaired |-> repaired]

\* variant: the state is taken from the first snapshot
restart_decide_seeds_first(trj, rst_atoms, atoms, nsteps, stride, repaired) ==
    LET n == Len(rst_atoms)
    IN IF n >= nsteps \div stride
       THEN [trj |-> trj, atoms |-> atoms, nsteps |-> 0, verdict |-> "complete",
             repaired |-> repaired]
       ELSE IF n = 0 \/ Len(rst_atoms[n].pos) # Len(atoms.pos)
       THEN [trj |-> trj, atoms |-> atoms, nsteps |-> nsteps, verdict |-> "new",
             repaired |-> repaired]
       ELSE [trj |-> trj, atoms |-> seed(atoms, rst_atoms[1]),
             nsteps |-> nsteps - n * stride,
             verdict |-> "resume", repaired |-> repaired]

\* variant: cell and pbc are set before the positions are
restart_decide_sets_cell_first(trj, rst_atoms, atoms, nsteps, stride, repaired) ==
    LET n == Len(rst_atoms)
    IN IF n >= nsteps \div stride
       THEN [trj |-> trj, atoms |-> atoms, nsteps |-> 0, verdict |-> "complete",
             repaired |-> repaired]
       ELSE IF n = 0
       THEN [trj |-> trj, atoms |-> atoms, nsteps |-> nsteps, verdict |-> "new",
             repaired |-> repaired]
       ELSE IF Len(rst_atoms[n].pos) # Len(atoms.pos)
       THEN [trj |-> trj,
             atoms |-> [atoms EXCEPT !.cell = rst_atoms[n].cell, !.pbc = rst_atoms[n].pbc],
             nsteps |-> nsteps, verdict |-> "new", repaired |-> repaired]
       ELSE [trj |-> trj, atoms |-> seed(atoms, rst_atoms[n]),
             nsteps |-> nsteps - n * stride,
             verdict |-> "resume", repaired |-> repaired]

\* variant: the steps up to the last snapshot are run again
restart_decide_redoes_last(trj, rst_atoms, atoms, nsteps, stride, repaired) ==
    LET n == Len(rst_atoms)
    IN IF n >= nsteps \div stride
       THEN [trj |-> trj, atoms |-> atoms, nsteps |-> 0, verdict |-> "complete",
             repaired |-> repaired]
       ELSE IF n = 0 \/ Len(rst_atoms[n].pos) # Len(atoms.pos)
       THEN [trj |-> trj, atoms |-> atoms, nsteps |-> nsteps, verdict |-> "new",
             repaired |-> repaired]
       ELSE [trj |-> trj, atoms |-> seed(atoms, rst_atoms[n]),
             nsteps |-> nsteps - (n - 1) * stride,
             verdict |-> "resume", repaired |-> repaired]

\* variant: no test for a complete run
restart_decide_no_threshold(trj, rst_atoms, atoms, nsteps, stride, repaired) ==
    LET n == Len(rst_atoms)
    IN IF n = 0 \/ Len(rst_atoms[n].pos) # Len(atoms.pos)
       THEN [trj |-> trj, atoms |-> atoms, nsteps |-> nsteps, verdict |-> "new",
             repaired |-> repaired]
       ELSE [trj |-> trj, atoms |-> seed(atoms, rst_atoms[n]),
             nsteps |-> nsteps - n * stride,
             verdict |-> "resume", repaired |-> repaired]

\* mace_md.py restart_md, lines 168-180, on the snapshots that were read
restart_decide(trj, rst_atoms, atoms, nsteps, stride, repaired) ==
    LET n == Len(rst_atoms)
        max_snapshots == nsteps \div stride
    IN IF n >= max_snapshots
       THEN Outcome(trj, atoms, 0, "complete", repaired)
       ELSE IF n = 0                                   \* rst_atoms[-1]: IndexError
       THEN restart_except(trj, atoms, nsteps, repaired)
       ELSE IF Len(rst_atoms[n].pos) # Len(atoms.pos)  \* set_positions: ValueError
       THEN restart_except(trj, atoms, nsteps, repaired)
       ELSE Outcome(trj, seed(atoms, rst_atoms[n]), nsteps - n * stride, "resume", repaired)

\* variant: after the repair the run starts anew
restart_md_repair_starts_new(trj, atoms, nsteps, stride) ==
    IF ~trj.exists
    THEN restart_except(trj, atoms, nsteps, FALSE)
    ELSE LET r == read(trj.lines) IN
         IF r.ok THEN restart_decide(trj, r.frames, atoms, nsteps, stride, FALSE)
         ELSE IF trj.lines = <<>> \/ trj.lines[1][1] # "hdr"
         THEN restart_except(trj, atoms, nsteps, FALSE)
         ELSE restart_except(File(newfile_of(trj.lines)), atoms, nsteps, TRUE)

\* mace_md.py restart_md, lines 148-184
restart_md(trj, atoms, nsteps, stride) ==
    IF ~trj.exists                                     \* read and open both raise
    THEN restart_except(trj, atoms, nsteps, FALSE)
    ELSE LET r == read(trj.lines) IN
         IF r.ok THEN restart_decide(trj, r.frames, atoms, nsteps, stride, FALSE)
         ELSE IF trj.lines = <<>> \/ trj.lines[1][1] # "hdr"   \* int(lines[0]...) raises
         THEN restart_except(trj, atoms, nsteps, FALSE)
         ELSE LET t2 == File(newfile_of(trj.lines))
                  r2 == read(t2.lines)
              IN IF r2.ok
                 THEN restart_decide(t2, r2.frames, atoms, nsteps, stride, TRUE)
                 ELSE restart_except(t2, atoms, nsteps, TRUE)

\* variant: the handler gives up the run
run_dyn_except_no_steps(trj, atoms, nsteps, repaired) ==
    [trj |-> trj, atoms |-> atoms, nsteps |-> 0, verdict |-> "new",
     repaired |-> repaired]

\* run_mace.py run_dyn, lines 110-111: the exception is printed; nsteps keeps
\* the value it has at that moment
run_dyn_except(trj, atoms, nsteps, repaired) ==
    Outcome(trj, atoms, nsteps, "new", repaired)

\* run_mace.py run_dyn, lines 78 and 98-109: the threshold is
\* int(nsteps/stride) + 1 and nsteps is reduced before the setters run
run_dyn_decide(trj, rst_atoms, atoms, nsteps, stride, repaired) ==
    LET n == Len(rst_atoms)
        max_snapshots == (nsteps \div stride) + 1
    IN IF n >= max_snapshots
       THEN Outcome(trj, atoms, 0, "complete", repaired)
       ELSE IF n = 0
       THEN run_dyn_except(trj, atoms, nsteps, repaired)
       ELSE IF Len(rst_atoms[n].pos) # Len(atoms.pos)
       THEN run_dyn_except(trj, atoms, nsteps - n * stride, repaired)
       ELSE Outcome(trj, seed(atoms, rst_atoms[n]), nsteps - n * stride, "resume", repaired)

\* run_mace.py run_dyn, the restart branch (lines 79-111)
run_dyn_restart(trj, atoms, nsteps, stride) ==
    IF ~trj.exists
    THEN run_dyn_except(trj, atoms, nsteps, FALSE)
    ELSE LET r == read(trj.lines) IN
         IF r.ok THEN run_dyn_decide(trj, r.frames, atoms, nsteps, stride, FALSE)
         ELSE IF trj.lines = <<>> \/ trj.lines[1][1] # "hdr"
         THEN run_dyn_except(trj, atoms, nsteps, FALSE)
         ELSE LET t2 == File(newfile_of(trj.lines))
                  r2 == read(t2.lines)
              IN IF r2.ok
                 THEN run_dyn_decide(t2, r2.frames, atoms, nsteps, stride, TRUE)
                 ELSE run_dyn_except(t2, atoms, nsteps, TRUE)

\* ------------------------------------------------------------------ state
VARIABLES
    config,   \* the checked configuration and the command line (never changes)
    batch,    \* the batch call: "init", "running", "returned", "raised"
    firsterr, \* the job whose exception the pool stored first (0: none)
    taskq,    \* the pool's task queue: chunks of job indices
    worker,   \* per process (0: the main process, 1..P: pool workers):
              \*   job it runs (0: idle), rest of its chunk, working-directory
              \*   depth below the launch directory, root_dir saved by run_mace
    job,      \* per job: position, process, atoms, stepper counters, verdict
    disk      \* per job directory: trajectory file, time.log and pdb entries
              \*   (the structures of a batch have distinct names; see SpecNames)

vars == <<config, batch, firsterr, taskq, worker, job, disk>>

Jobs == 1..config.njobs

\* variant: one process more than devices
Procs_one_more == IF config.parallel THEN 0..config.ndevices ELSE {0}

Procs == IF config.parallel THEN 1..config.ndevices ELSE {0}

\* device_names[i % ndevices] of the argument list (0-based i = j - 1)
device_arg(j) == ((j - 1) % config.ndevices) + 1

\* Pool._map_async: chunksize, extra = divmod(len(iterable), len(pool) * 4)
chunksize_of(njobs, nprocs) ==
    (njobs \div (nprocs * 4)) + (IF njobs % (nprocs * 4) = 0 THEN 0 ELSE 1)

\* Pool._get_tasks: the job indices cut into chunks of the given size
RECURSIVE chunks_from(_, _, _)
chunks_from(first, njobs, size) ==
    IF first > njobs THEN <<>>
    ELSE LET last == IF first + size - 1 <= njobs THEN first + size - 1 ELSE njobs
         IN <<[k \in 1..(last - first + 1) |-> first + k - 1]>>
              \o chunks_from(last + 1, njobs, size)

NewJob == [pc |-> "queued", proc |-> -1, device |-> 0, atoms |-> InputAtoms(0),
           nsteps |-> 0, dynsteps |-> 0, max_steps |-> 0, verdict |-> "none",
           repaired |-> FALSE, ran |-> FALSE, outcome |-> "none",
           error |-> "none", fired |-> <<>>, qm |-> <<>>, written |-> <<>>]

IdleWorker == [job |-> 0, rest |-> <<>>, cwd |-> 0, root_dir |-> 0]

\* ------------------------------------------------------------ input stores
\* frame i of an earlier attempt on n atoms
OldFrame(n, i) == FrameLines(AtomsState(n, i, 1))

RECURSIVE OldFrames(_, _, _, _)
\* k frames of n atoms; frame `odd` (if in 1..k) has n2 atoms instead
OldFrames(n, k, odd, n2) ==
    IF k = 0 THEN <<>>
    ELSE OldFrames(n, k - 1, odd, n2) \o OldFrame(IF k = odd THEN n2 ELSE n, k)

\* the trajectory files a restart can meet: none, k whole frames, a tail cut
\* after m lines of frame k+1 (killed during the append), and files in which
\* one frame does not have the atom count of the others
StoreShapes ==
    { t \in (1..MaxAtoms) \X (0..MaxFrames) \X (0..(MaxAtoms + 1))
              \X (0..MaxFrames) \X (1..MaxAtoms) :
        /\ t[3] <= t[1] + 1
        /\ t[4] <= t[2]
        /\ (t[4] = 0) = (t[5] = t[1]) }

StoreOf(t) == File(OldFrames(t[1], t[2], t[4], t[5]) \o SubSeq(OldFrame(t[1], t[2] + 1), 1, t[3]))

Stores == {NoFile} \cup { StoreOf(t) : t \in StoreShapes }

\* the trajectory a finished run of nsteps steps leaves: the observers fire
\* at step 0 and after every stride steps
FinishedStore(n, nsteps, stride) == File(OldFrames(n, (nsteps \div stride) + 1, 0, n))

\* a job directory as the batch finds it: the trajectory file, no time.log,
\* pdb, cp2k_snaps.xyz or md.log entries yet; base keeps the line count the
\* trajectory had then
NewDisk(trj) == [trj |-> trj, timelog |-> 0, pdb |-> 0, anomaly |-> 0, mdlog |-> 0, base |-> Len(trj.lines)]

\* ------------------------------------------------------------------- Init
Config(prog, parallel, restart, njobs, ndevices, nsteps, stride, natoms, relpath, faulty, fault) ==
    [prog |-> prog, parallel |-> parallel, restart |-> restart, njobs |-> njobs,
     ndevices |-> ndevices, nsteps |-> nsteps, stride |-> stride,
     natoms |-> natoms, relpath |-> relpath, faulty |-> faulty, fault |-> fault]

\* what else the configuration and the command line decide: the QM section
\* ("missing": no such key; "none": no QM observer; "ok": a QM program that
\* answers within the tolerances; "any": one that may also differ or fail),
\* the two tolerances, and whether mace_md.py itself is the program run
Options(qm, script) ==
    [qm |-> qm, script |-> script, energy_tol |-> 1, force_tol |-> 1]

Programs == {<<"naimless", TRUE>>, <<"naimless", FALSE>>, <<"run_mace", TRUE>>}

\* main.py hands config["qm"] to every job; run_mace.py attaches run_cp2k
\* only when its cp2k section is a mapping
usual_qm(prog) == IF prog = "naimless" THEN "ok" ELSE "none"

\* a batch of several structures over a device list; one job at most carries
\* an injected fault; the first or the last job may have the trajectory of a
\* finished run (the batch is then a restart); the paths are relative unless
\* a stepper fault is injected in a batch no longer than the pool.
\* One batch is longer than four times the pool, so that its chunks hold
\* two jobs (five jobs on one device).
InitBatch ==
    \E pm \in Programs, restart \in BOOLEAN, ndevices \in 1..MaxDevices,
       njobs \in (1..MaxJobs) \cup {4 * 1 + 1},
       relpath \in BOOLEAN, faulty \in 0..MaxJobs,
       fault \in {"none", "calc", "step"}, full \in 0..MaxJobs :
        /\ faulty <= njobs /\ full \in {0, 1, njobs}
        /\ (faulty = 0) = (fault = "none")
        /\ (full # 0) = restart
        /\ (fault # "step") => relpath
        /\ ~relpath => njobs <= ndevices
        /\ njobs > MaxJobs => ndevices = 1 /\ pm[2] /\ ~restart /\ faulty <= 1 /\ fault # "step"
        /\ config = Config(pm[1], pm[2], restart, njobs, ndevices, 1, 1, 1,
                           relpath, faulty, fault) @@ Options(usual_qm(pm[1]), FALSE)
        /\ disk = [j \in 1..njobs |->
                     NewDisk(IF j = full THEN FinishedStore(1, 1, 1) ELSE NoFile)]

\* one structure restarted on any trajectory file, step count and stride
InitRestart ==
    \E pm \in Programs \ {<<"naimless", TRUE>>}, nsteps \in 0..MaxSteps, stride \in 1..MaxStride,
       natoms \in 1..MaxAtoms, trj \in Stores :
        /\ config = Config(pm[1], pm[2], TRUE, 1, 1, nsteps, stride, natoms,
                           TRUE, 0, "none") @@ Options(usual_qm(pm[1]), FALSE)
        /\ disk = [j \in 1..1 |-> NewDisk(trj)]

\* mace_md.py run as a script on one structure, with or without --restart,
\* in a directory that may hold the trajectory of an earlier attempt
InitScript ==
    \E restart \in BOOLEAN, nsteps \in 0..MaxSteps, stride \in 1..MaxStride,
       trj \in Stores :
        /\ config = Config("naimless", FALSE, restart, 1, 1, nsteps, stride, 1,
                           TRUE, 0, "none") @@ Options("none", TRUE)
        /\ disk = [j \in 1..1 |-> NewDisk(trj)]

\* one structure run from the start with a QM program that may agree,
\* differ or fail at every call
InitQM ==
    \E pm \in Programs \ {<<"naimless", TRUE>>}, nsteps \in 0..MaxSteps, stride \in 1..MaxStride :
        /\ config = Config(pm[1], pm[2], FALSE, 1, 1, nsteps, stride, 1,
                           TRUE, 0, "none") @@ Options("any", FALSE)
        /\ disk = [j \in 1..1 |-> NewDisk(NoFile)]

\* a naimless configuration without a qm section
InitNoQM ==
    \E parallel \in BOOLEAN, njobs \in 1..MaxJobs, ndevices \in 1..MaxDevices :
        /\ config = Config("naimless", parallel, FALSE, njobs, ndevices, 1, 1, 1,
                           TRUE, 0, "none") @@ Options("missing", FALSE)
        /\ disk = [j \in 1..njobs |-> NewDisk(NoFile)]

Init ==
    /\ InitBatch \/ InitRestart \/ InitScript \/ InitQM \/ InitNoQM
    /\ batch = "init"
    /\ firsterr = 0
    /\ taskq = <<>>
    /\ worker = [w \in 0..config.ndevices |-> IdleWorker]
    /\ job = [j \in 1..config.njobs |-> NewJob]

fault_of(j) == IF j = config.faulty THEN config.fault ELSE "none"

\* -------------------------------------------------------------- observers
\* What the observers of one call work on: the job directory, the stepper's
\* atoms, the observers called so far, and whether one of them has raised.
HookState(d, atoms) == [d |-> d, atoms |-> atoms, log |-> <<>>, raised |-> FALSE]

\* the outcome of one external QM evaluation: <<0, 0>> when the QM program
\* fails, else <<dE, dF>>, the distances of the QM energy and forces from
\* the potential's
QMFailed == <<0, 0>>

QMOutcomes ==
    IF config.qm = "any" THEN {QMFailed} \cup (1..2) \X (1..2) ELSE {<<1, 1>>}

\* variant: the trajectory is written without append
print_md_snapshot_replaces(st) ==
    LET at == wrap(st.atoms) IN
    [st EXCEPT !.atoms = at,
               !.d.trj = File(FrameLines(at)),
               !.d.pdb = st.d.pdb + 1]

\* print_md_snapshot: the atoms are wrapped, one frame is appended to
\* <name>.trj.xyz and one to <name>.trj.pdb
print_md_snapshot(st) ==
    LET at == wrap(st.atoms) IN
    [st EXCEPT !.atoms = at,
               !.d.trj = File(st.d.trj.lines \o FrameLines(at)),
               !.d.pdb = st.d.pdb + 1]

\* time_tracker: one line appended to time.log
time_tracker(st) == [st EXCEPT !.d.timelog = st.d.timelog + 1]

\* MDLogger of run_mace.py: one line appended to md.log
MDLogger(st) == [st EXCEPT !.d.mdlog = st.d.mdlog + 1]

\* variant: the exception of the QM calculator is not handled
run_qm_raises(st, q) ==
    LET at == wrap(st.atoms) IN
    IF q = QMFailed THEN [st EXCEPT !.atoms = at, !.raised = TRUE]
    ELSE [st EXCEPT !.atoms = [at EXCEPT !.E = ml_energy(at) + q[1],
                                         !.frc = ml_forces(at) + q[2]]]

\* mace_md.py create_run_qm: the atoms are wrapped; energy and forces of the
\* QM calculator, or 0 and zeros when it raises, go to info['E'] and
\* arrays['frc']
run_qm(st, q) ==
    LET at == wrap(st.atoms) IN
    [st EXCEPT !.atoms = [at EXCEPT !.E = IF q = QMFailed THEN 0 ELSE ml_energy(at) + q[1],
                                    !.frc = IF q = QMFailed THEN 0 ELSE ml_forces(at) + q[2]]]

\* variant: the override needs both the energy and the forces to differ
run_cp2k_needs_both(st, q) ==
    LET at == wrap(st.atoms) IN
    IF q = QMFailed THEN [st EXCEPT !.atoms = at, !.raised = TRUE]
    ELSE IF q[1] > config.energy_tol /\ q[2] > config.force_tol
    THEN [st EXCEPT !.atoms = [at EXCEPT !.E = ml_energy(at) + q[1],
                                         !.frc = ml_forces(at) + q[2]],
                    !.d.anomaly = st.d.anomaly + 1]
    ELSE [st EXCEPT !.atoms = at]

\* run_mace.py create_run_cp2k: the atoms are wrapped and written for CP2K;
\* subprocess.run(check=True) raises when CP2K fails (inside cp2k_files);
\* beyond a tolerance the CP2K values go to info['E'] and arrays['frc'] and
\* the atoms are appended to cp2k_snaps.xyz
run_cp2k(st, q) ==
    LET at == wrap(st.atoms) IN
    IF q = QMFailed THEN [st EXCEPT !.atoms = at, !.raised = TRUE]
    ELSE IF q[1] > config.energy_tol \/ q[2] > config.force_tol
    THEN [st EXCEPT !.atoms = [at EXCEPT !.E = ml_energy(at) + q[1],
                                         !.frc = ml_forces(at) + q[2]],
                    !.d.anomaly = st.d.anomaly + 1]
    ELSE [st EXCEPT !.atoms = at]

\* variant: the snapshot writer is attached before the QM observer
observers_snapshot_first ==
    IF config.prog = "naimless"
    THEN <<"print_md_snapshot">>
           \o (IF config.qm = "none" THEN <<>> ELSE <<"run_qm">>)
           \o <<"time_tracker">>
    ELSE <<"time_tracker", "print_md_snapshot">>
           \o (IF config.qm = "none" THEN <<>> ELSE <<"run_cp2k">>)
           \o <<"MDLogger">>

\* the observers in the order of their dyn.attach calls: mace_md.py main,
\* lines 256-265, and run_mace.py process_structure, lines 145-173
observers ==
    IF config.prog = "naimless"
    THEN (IF config.qm = "none" THEN <<>> ELSE <<"run_qm">>)
           \o <<"print_md_snapshot", "time_tracker">>
    ELSE <<"time_tracker">>
           \o (IF config.qm = "none" THEN <<>> ELSE <<"run_cp2k">>)
           \o <<"print_md_snapshot", "MDLogger">>

call_observer(name, st, q) ==
    LET done == CASE name = "run_qm" -> run_qm(st, q)
                  [] name = "run_cp2k" -> run_cp2k(st, q)
                  [] name = "print_md_snapshot" -> print_md_snapshot(st)
                  [] name = "time_tracker" -> time_tracker(st)
                  [] name = "MDLogger" -> MDLogger(st)
    IN [done EXCEPT !.log = Append(st.log, name)]

\* the observers from the i-th on, one after the other; an exception of one
\* of them leaves the others uncalled
RECURSIVE call_from(_, _, _)
call_from(i, st, q) ==
    IF i > Len(observers) \/ st.raised THEN st
    ELSE call_from(i + 1, call_observer(observers[i], st, q), q)

\* Dynamics.call_observers: every observer is attached at interval stride and
\* is called when the step counter is a multiple of it
\* variant: no call before the first step
Fires_after_a_step(dynsteps) == dynsteps > 0 /\ dynsteps % config.stride = 0

Fires(dynsteps) == dynsteps % config.stride = 0

call_observers(d, atoms, dynsteps, q) ==
    IF Fires(dynsteps) THEN call_from(1, HookState(d, atoms), q)
    ELSE HookState(d, atoms)

\* the QM outcomes the call of the observers at this step count can meet
QMAt(dynsteps) == IF Fires(dynsteps) THEN QMOutcomes ELSE {<<1, 1>>}

\* one integration step of the external stepper: positions and velocities move
step_atoms(atoms) ==
    [atoms EXCEPT !.pos = [a \in DOMAIN atoms.pos |-> atoms.pos[a] + 1],
                  !.vel = [a \in DOMAIN atoms.vel |-> atoms.vel[a] + 1]]

\* ------------------------------------------------- leaving a job's function
\* the job's function raises: the rest of its chunk is not run (mapstar); in
\* the pool the first exception is kept for the end of starmap, in the serial
\* loop it ends the program
Raises(j, jrec, cwd, error) ==
    /\ job' = [job EXCEPT ![j] = [jrec EXCEPT !.pc = "failed", !.outcome = "Failed",
                                              !.error = error]]
    /\ worker' = [worker EXCEPT ![jrec.proc].job = 0, ![jrec.proc].rest = <<>>,
                                ![jrec.proc].cwd = cwd]
    /\ IF config.parallel
       THEN /\ firsterr' = (IF firsterr = 0 THEN j ELSE firsterr)
            /\ UNCHANGED batch
       ELSE /\ batch' = "raised"
            /\ UNCHANGED firsterr

\* the job's function returns to its process
Returns(j, jrec, cwd) ==
    /\ job' = [job EXCEPT ![j] = [jrec EXCEPT !.pc = "done"]]
    /\ worker' = [worker EXCEPT ![jrec.proc].job = 0, ![jrec.proc].cwd = cwd]

\* ------------------------------------------------------------- dispatchers
\* naimless main.py md_parallel_batch: the pool and the argument list
md_parallel_batch ==
    /\ batch = "init"
    /\ config.parallel
    /\ batch' = "running"
    /\ taskq' = chunks_from(1, config.njobs,
                            chunksize_of(config.njobs, config.ndevices))
    /\ UNCHANGED <<config, firsterr, worker, job, disk>>

\* naimless main.py main, the serial loop over initial_structures
main_serial ==
    /\ batch = "init"
    /\ ~config.parallel
    /\ batch' = "running"
    /\ worker' = [worker EXCEPT ![0].rest = [k \in 1..config.njobs |-> k]]
    /\ UNCHANGED <<config, firsterr, taskq, job, disk>>

\* a pool worker takes the next chunk from the task queue and calls the job
\* function for its first argument tuple (mapstar)
take_chunk(w) ==
    /\ batch = "running"
    /\ config.parallel
    /\ worker[w].job = 0
    /\ worker[w].rest = <<>>
    /\ taskq # <<>>
    /\ LET j == Head(Head(taskq)) IN
        /\ worker' = [worker EXCEPT ![w].job = j, ![w].rest = Tail(Head(taskq))]
        /\ job' = [job EXCEPT ![j].pc = "read", ![j].proc = w]
    /\ taskq' = Tail(taskq)
    /\ UNCHANGED <<config, batch, firsterr, disk>>

\* a process calls the job function for the next argument tuple of its chunk
\* (the pool's mapstar) or of its loop (the serial main)
start_task(w) ==
    /\ batch = "running"
    /\ worker[w].job = 0
    /\ worker[w].rest # <<>>
    /\ LET j == Head(worker[w].rest) IN
        /\ worker' = [worker EXCEPT ![w].job = j, ![w].rest = Tail(worker[w].rest)]
        /\ job' = [job EXCEPT ![j].pc = "read", ![j].proc = w]
    /\ UNCHANGED <<config, batch, firsterr, taskq, disk>>

\* variant: starmap returns as soon as the task queue is empty
pool_return_early ==
    /\ batch = "running"
    /\ config.parallel
    /\ taskq = <<>>
    /\ batch' = (IF firsterr = 0 THEN "returned" ELSE "raised")
    /\ UNCHANGED <<config, firsterr, taskq, worker, job, disk>>

\* starmap returns (or re-raises the first exception) once every chunk is done
pool_return ==
    /\ batch = "running"
    /\ config.parallel
    /\ taskq = <<>>
    /\ \A w \in Procs : worker[w].job = 0 /\ worker[w].rest = <<>>
    /\ batch' = (IF firsterr = 0 THEN "returned" ELSE "raised")
    /\ UNCHANGED <<config, firsterr, taskq, worker, job, disk>>

\* the serial loop ends
main_return ==
    /\ batch = "running"
    /\ ~config.parallel
    /\ worker[0].job = 0 /\ worker[0].rest = <<>>
    /\ batch' = "returned"
    /\ UNCHANGED <<config, firsterr, taskq, worker, job, disk>>

\* ---------------------------------------------------- a job under naimless
cwd_of(j) == worker[job[j].proc].cwd

\* main.py run_md, lines 99-100: io_module.read_structure(structure_path);
\* a relative path is resolved against the process's working directory
run_md_read(j) ==
    /\ config.prog = "naimless"
    /\ ~config.script
    /\ job[j].pc = "read"
    /\ IF config.relpath /\ cwd_of(j) > 0
       THEN Raises(j, job[j], cwd_of(j), "FileNotFoundError")
       ELSE /\ job' = [job EXCEPT ![j].pc = "calc",
                                  ![j].atoms = InputAtoms(config.natoms)]
            /\ UNCHANGED <<batch, firsterr, worker>>
    /\ UNCHANGED <<config, taskq, disk>>

\* mace_md.py run as a script, lines 269-295: the input structure is read;
\* with --restart it is written to <name>.trj.xyz of the job directory
\* (a plain write: the file is replaced), before a calculator is attached
mace_md_script(j) ==
    /\ config.prog = "naimless"
    /\ config.script
    /\ job[j].pc = "read"
    /\ job' = [job EXCEPT ![j].pc = "calc", ![j].atoms = InputAtoms(config.natoms)]
    /\ disk' = [disk EXCEPT ![j].trj =
                   IF config.restart
                   THEN File(FrameLinesOf(InputAtoms(config.natoms), Unset, Unset))
                   ELSE disk[j].trj]
    /\ UNCHANGED <<config, batch, firsterr, taskq, worker>>

\* the device_id that main.py run_md hands on: the batch index i in
\* md_parallel_batch, the default 0 in the serial loop
device_id(j) == IF config.parallel THEN j - 1 ELSE 0

\* mace_md.py main, lines 254-265: the calculator on
\* mace_config['computing']['devices'][device_id], the dynamics, the observers
mace_md_main(j) ==
    /\ config.prog = "naimless"
    /\ job[j].pc = "calc"
    /\ IF config.qm = "missing"                 \* main.py line 103: config["qm"]
       THEN Raises(j, job[j], cwd_of(j), "KeyError")
       ELSE IF device_id(j) >= config.ndevices
       THEN Raises(j, job[j], cwd_of(j), "IndexError")
       ELSE IF fault_of(j) = "calc"
       THEN Raises(j, job[j], cwd_of(j), "fault")
       ELSE /\ job' = [job EXCEPT ![j].pc = "enter", ![j].device = device_id(j) + 1]
            /\ UNCHANGED <<batch, firsterr, worker>>
    /\ UNCHANGED <<config, taskq, disk>>

\* mace_md.py run_md, lines 195-203: into the job directory, then restart_md
\* or the full step count
run_md(j) ==
    /\ config.prog = "naimless"
    /\ job[j].pc = "enter"
    /\ LET r == IF config.restart
                THEN restart_md(disk[j].trj, job[j].atoms, config.nsteps, config.stride)
                ELSE Outcome(disk[j].trj, job[j].atoms, config.nsteps, "fresh", FALSE)
       IN /\ job' = [job EXCEPT ![j].pc = "run", ![j].atoms = r.atoms,
                                ![j].nsteps = r.nsteps, ![j].verdict = r.verdict,
                                ![j].repaired = r.repaired]
          /\ disk' = [disk EXCEPT ![j].trj = r.trj]
    /\ worker' = [worker EXCEPT ![job[j].proc].cwd = cwd_of(j) + 1]
    /\ UNCHANGED <<config, batch, firsterr, taskq>>

\* the job after a call of the observers: the atoms as they leave them, the
\* observers called, the QM outcome met and the atoms of the frame written.
\* An observer's exception leaves dyn.run; only run_cp2k raises, and
\* run_dyn catches it (run_mace.py lines 113-118).
Observed(jrec, st, q) ==
    LET seen == [jrec EXCEPT !.atoms = st.atoms, !.fired = st.log,
                    !.qm = IF \E i \in 1..Len(st.log) : st.log[i] \in {"run_qm", "run_cp2k"}
                           THEN q ELSE <<>>,
                    !.written = IF \E i \in 1..Len(st.log) : st.log[i] = "print_md_snapshot"
                                THEN Append(jrec.written, st.atoms) ELSE jrec.written]
    IN IF st.raised
       THEN [seen EXCEPT !.pc = "leave", !.outcome = "Failed", !.error = "qm"]
       ELSE seen

\* mace_md.py run_md, line 204: dyn.run(steps=nsteps) is entered.  The
\* stepper evaluates the forces (a broken potential raises here) and, its
\* step counter being 0, calls the observers before the first step.
dyn_run(j) ==
    /\ config.prog = "naimless"
    /\ job[j].pc = "run"
    /\ IF fault_of(j) = "step"
       THEN /\ Raises(j, [job[j] EXCEPT !.ran = TRUE], cwd_of(j), "fault")
            /\ UNCHANGED disk
       ELSE \E q \in QMAt(job[j].dynsteps) :
            LET st == call_observers(disk[j], job[j].atoms, job[j].dynsteps, q) IN
            /\ job' = [job EXCEPT ![j] = Observed([job[j] EXCEPT !.pc = "stepping", !.ran = TRUE,
                                  !.max_steps = job[j].dynsteps + job[j].nsteps], st, q)]
            /\ disk' = [disk EXCEPT ![j] = st.d]
            /\ UNCHANGED <<batch, firsterr, worker>>
    /\ UNCHANGED <<config, taskq>>

\* one pass of the stepper's loop: step, count, call the observers
dyn_step(j) ==
    /\ job[j].pc = "stepping"
    /\ job[j].dynsteps < job[j].max_steps
    /\ \E q \in QMAt(job[j].dynsteps + 1) :
        LET moved == step_atoms(job[j].atoms)
            st == call_observers(disk[j], moved, job[j].dynsteps + 1, q)
        IN /\ job' = [job EXCEPT ![j] = Observed([job[j] EXCEPT !.dynsteps = job[j].dynsteps + 1],
                                                 st, q)]
           /\ disk' = [disk EXCEPT ![j] = st.d]
           /\ worker' = [worker EXCEPT ![job[j].proc].cwd =
                             cwd_of(j) + (IF st.raised THEN 1 ELSE 0)]
    /\ UNCHANGED <<config, batch, firsterr, taskq>>

\* what the job's messages say of it when it returns
outcome_of(jrec) ==
    IF jrec.outcome # "none" THEN jrec.outcome
    ELSE IF jrec.verdict = "complete" THEN "Skipped" ELSE "Completed"

\* mace_md.py run_md, line 205: dyn.run has returned; os.chdir('..')
run_md_leave(j) ==
    /\ config.prog = "naimless"
    /\ job[j].pc = "stepping"
    /\ job[j].dynsteps >= job[j].max_steps
    /\ Returns(j, [job[j] EXCEPT !.outcome = outcome_of(job[j])], cwd_of(j) - 1)
    /\ UNCHANGED <<config, batch, firsterr, taskq, disk>>

\* ---------------------------------------------------- a job under run_mace
\* run_mace.py process_structure, line 124: read_structure(structure_path)
process_structure_read(j) ==
    /\ config.prog = "run_mace"
    /\ job[j].pc = "read"
    /\ IF config.relpath /\ cwd_of(j) > 0
       THEN Raises(j, job[j], cwd_of(j), "FileNotFoundError")
       ELSE /\ job' = [job EXCEPT ![j].pc = "calc",
                                  ![j].atoms = InputAtoms(config.natoms)]
            /\ UNCHANGED <<batch, firsterr, worker>>
    /\ UNCHANGED <<config, taskq, disk>>

\* run_mace.py process_structure, lines 125-132: load_calculator(device_name)
\* with the device_name of the argument list, then the initial velocities
load_calculator(j) ==
    /\ config.prog = "run_mace"
    /\ job[j].pc = "calc"
    /\ IF fault_of(j) = "calc"
       THEN Raises(j, job[j], cwd_of(j), "fault")
       ELSE /\ job' = [job EXCEPT ![j].pc = "enter", ![j].device = device_arg(j)]
            /\ UNCHANGED <<batch, firsterr, worker>>
    /\ UNCHANGED <<config, taskq, disk>>

\* run_mace.py process_structure, lines 135-175, and run_dyn, lines 76-111:
\* root_dir is saved, the job directory entered, the observers attached; with
\* --restart the trajectory is reconciled and a complete job returns at once
process_structure(j) ==
    /\ config.prog = "run_mace"
    /\ job[j].pc = "enter"
    /\ LET r == IF config.restart
                THEN run_dyn_restart(disk[j].trj, job[j].atoms, config.nsteps, config.stride)
                ELSE Outcome(disk[j].trj, job[j].atoms, config.nsteps, "fresh", FALSE)
       IN /\ job' = [job EXCEPT ![j].pc = (IF r.verdict = "complete" THEN "leave" ELSE "run"),
                                ![j].atoms = r.atoms, ![j].nsteps = r.nsteps,
                                ![j].verdict = r.verdict, ![j].repaired = r.repaired]
          /\ disk' = [disk EXCEPT ![j].trj = r.trj]
    /\ worker' = [worker EXCEPT ![job[j].proc].root_dir = cwd_of(j),
                                ![job[j].proc].cwd = cwd_of(j) + 1]
    /\ UNCHANGED <<config, batch, firsterr, taskq>>

\* run_mace.py run_dyn, lines 113-118: dyn.run(steps=nsteps) inside try; an
\* exception of the stepper is printed and run_dyn goes on to its end
run_dyn(j) ==
    /\ config.prog = "run_mace"
    /\ job[j].pc = "run"
    /\ IF fault_of(j) = "step"
       THEN /\ job' = [job EXCEPT ![j].pc = "leave", ![j].ran = TRUE,
                                  ![j].outcome = "Failed", ![j].error = "fault"]
            /\ UNCHANGED disk
            /\ UNCHANGED worker
       ELSE \E q \in QMAt(job[j].dynsteps) :
            LET st == call_observers(disk[j], job[j].atoms, job[j].dynsteps, q) IN
            /\ job' = [job EXCEPT ![j] = Observed([job[j] EXCEPT !.pc = "stepping", !.ran = TRUE,
                                  !.max_steps = job[j].dynsteps + job[j].nsteps], st, q)]
            /\ disk' = [disk EXCEPT ![j] = st.d]
            /\ worker' = [worker EXCEPT ![job[j].proc].cwd =
                              cwd_of(j) + (IF st.raised THEN 1 ELSE 0)]
    /\ UNCHANGED <<config, batch, firsterr, taskq>>

\* run_mace.py run_dyn, lines 116-121: dyn.run has returned
run_dyn_end(j) ==
    /\ config.prog = "run_mace"
    /\ job[j].pc = "stepping"
    /\ job[j].dynsteps >= job[j].max_steps
    /\ job' = [job EXCEPT ![j].pc = "leave"]
    /\ UNCHANGED <<config, batch, firsterr, taskq, worker, disk>>

\* run_mace.py process_structure, lines 176-180: os.chdir(root_dir)
process_structure_leave(j) ==
    /\ config.prog = "run_mace"
    /\ job[j].pc = "leave"
    /\ Returns(j, [job[j] EXCEPT !.outcome = outcome_of(job[j])],
               worker[job[j].proc].root_dir)
    /\ UNCHANGED <<config, batch, firsterr, taskq, disk>>

\* ------------------------------------------------------------------- Next
Next ==
    \/ md_parallel_batch
    \/ main_serial
    \/ \E w \in Procs : take_chunk(w)
    \/ \E w \in Procs : start_task(w)
    \/ pool_return
    \/ main_return
    \/ \E j \in Jobs : run_md_read(j)
    \/ \E j \in Jobs : mace_md_script(j)
    \/ \E j \in Jobs : mace_md_main(j)
    \/ \E j \in Jobs : run_md(j)
    \/ \E j \in Jobs : dyn_run(j)
    \/ \E j \in Jobs : dyn_step(j)
    \/ \E j \in Jobs : run_md_leave(j)
    \/ \E j \in Jobs : process_structure_read(j)
    \/ \E j \in Jobs : load_calculator(j)
    \/ \E j \in Jobs : process_structure(j)
    \/ \E j \in Jobs : run_dyn(j)
    \/ \E j \in Jobs : run_dyn_end(j)
    \/ \E j \in Jobs : process_structure_leave(j)

Spec == Init /\ [][Next]_vars

\* ------------------------------------------------------------- type check
TypeOK ==
    /\ batch \in {"init", "running", "returned", "raised"}
    /\ firsterr \in 0..config.njobs
    /\ \A j \in Jobs :
        /\ job[j].pc \in {"queued", "read", "calc", "enter", "run", "stepping",
                          "leave", "done", "failed"}
        /\ job[j].outcome \in {"none", "Completed", "Failed", "Skipped"}
        /\ job[j].error \in {"none", "FileNotFoundError", "IndexError", "KeyError",
                             "fault", "qm"}
        /\ job[j].device \in 0..config.ndevices
        /\ job[j].nsteps \in 0..config.nsteps
        /\ job[j].qm \in {<<>>, QMFailed} \cup (1..2) \X (1..2)
        /\ Len(job[j].written) <= disk[j].pdb
        /\ disk[j].timelog >= 0 /\ disk[j].anomaly >= 0 /\ disk[j].mdlog >= 0

\* ================================================================= claims
InFlight(j) == job[j].pc \in {"read", "calc", "enter", "run", "stepping", "leave"}

BatchEnded == batch \in {"returned", "raised"}

\* the job raises by itself: an injected fault, or (naimless pool) the device
\* index of C1
SelfFails(j) ==
    \/ fault_of(j) # "none"
    \/ config.prog = "naimless" /\ config.parallel /\ j > config.ndevices

\* C1: in a parallel batch the calculator of the job at batch index i is
\* created on device_pool[i mod P]: its creation never fails on the device
\* index, and once created it sits on that device, also for i >= P.
C1_DeviceAssignment ==
    \A j \in Jobs :
        config.parallel =>
            /\ job[j].error # "IndexError"
            /\ job[j].device # 0 => job[j].device = device_arg(j)

\* C2: at no moment are two jobs in flight whose calculators are on the same
\* device.
C2_OneJobPerDevice ==
    \A i, j \in Jobs :
        (i # j /\ InFlight(i) /\ InFlight(j) /\ job[i].device # 0)
            => job[i].device # job[j].device

\* C3: once the batch call has ended, every job that does not itself raise
\* has run to its own end (Completed, or Skipped when already complete),
\* whatever another job of the batch did, in the pool and in the serial loop.
C3_FailureIsolation ==
    BatchEnded =>
        \A j \in Jobs : ~SelfFails(j) => job[j].outcome \in {"Completed", "Skipped"}

\* C4: once the batch call has ended, every job of the batch has exactly one
\* outcome, one of Completed, Failed and Skipped.
C4_OneOutcomePerJob ==
    BatchEnded =>
        \A j \in Jobs : job[j].outcome \in {"Completed", "Failed", "Skipped"}

\* ------------------------------------------------------- reconciliation
\* the job has just been reconciled with its trajectory file: the restart
\* branch has returned and dyn.run has not been entered
Reconciled(j) ==
    /\ config.restart
    /\ job[j].pc \in {"run", "leave"}
    /\ ~job[j].ran
    /\ job[j].outcome = "none"

\* restart_md or the restart branch of run_dyn is executed for job j
Reconciles(j) == config.restart /\ job[j].pc = "enter" /\ job'[j].pc # "enter"

Readable(trj) == trj.exists /\ read(trj.lines).ok

FrameCount(trj) == Len(read(trj.lines).frames)

\* C5 as stated: with n the frames of the store after any repair and
\* max_frames = floor(nsteps / stride), the remaining step count is 0 when
\* n >= max_frames and positive when n < max_frames.
C5_AsStated ==
    \A j \in Jobs :
        (Reconciled(j) /\ Readable(disk[j].trj)) =>
            LET n == FrameCount(disk[j].trj)
                max_frames == config.nsteps \div config.stride
            IN /\ n >= max_frames => job[j].nsteps = 0
               /\ n < max_frames => job[j].nsteps > 0

\* C5 (amended): restart_md of naimless does as stated; run_dyn of run_mace.py
\* takes max_frames + 1 as its threshold: it returns without running when
\* n >= max_frames + 1 and else runs nsteps - n * stride steps, which is
\* positive when n < max_frames and nsteps mod stride when n = max_frames.
C5_CompletionDetection ==
    \A j \in Jobs :
        (Reconciled(j) /\ Readable(disk[j].trj)) =>
            LET n == FrameCount(disk[j].trj)
                max_frames == config.nsteps \div config.stride
            IN /\ config.prog = "naimless" =>
                    /\ n >= max_frames => job[j].nsteps = 0
                    /\ n < max_frames => job[j].nsteps > 0
               /\ config.prog = "run_mace" =>
                    /\ n >= max_frames + 1 => job[j].nsteps = 0 /\ job[j].pc = "leave"
                    /\ n < max_frames + 1 =>
                          /\ job[j].nsteps = config.nsteps - n * config.stride
                          /\ job[j].pc = "run"
                    /\ n < max_frames => job[j].nsteps > 0

C5_Witness ==
    \E j \in Jobs :
        /\ Reconciled(j) /\ Readable(disk[j].trj)
        /\ FrameCount(disk[j].trj) >= 1
        /\ FrameCount(disk[j].trj) >= config.nsteps \div config.stride
        /\ config.nsteps >= config.stride
        /\ job[j].nsteps = 0

\* C6: a job that reconciliation finds complete never has its stepper
\* invoked, not even for a zero-step run.
C6_SkipMeansNoRun ==
    \A j \in Jobs : job[j].verdict = "complete" => ~job[j].ran

\* C7: a restarted job without a trajectory file gets the full step count,
\* keeps the atoms of its input structure and goes on to run: no error.
C7_FreshStart ==
    \A j \in Jobs :
        (Reconciled(j) /\ ~disk[j].trj.exists) =>
            /\ job[j].nsteps = config.nsteps
            /\ job[j].atoms = InputAtoms(config.natoms)
            /\ job[j].pc = "run"
            /\ job[j].error = "none"

C7_Witness ==
    \E j \in Jobs : Reconciled(j) /\ ~disk[j].trj.exists /\ job[j].nsteps > 0

\* a frame of n atoms stands whole at line p
WholeFrame(lines, p, n) ==
    /\ p + n + 1 <= Len(lines)
    /\ lines[p] = <<"hdr", n, 0>>
    /\ lines[p + 1][1] = "cmt"
    /\ \A a \in 1..n : lines[p + 1 + a][1] = "atom"

\* the last m lines, from line p on, are the first m lines of a frame of n atoms
PartialFrame(lines, p, n, m) ==
    /\ p + m - 1 = Len(lines)
    /\ lines[p] = <<"hdr", n, 0>>
    /\ m >= 2 => lines[p + 1][1] = "cmt"
    /\ \A a \in 3..m : lines[p + a - 1][1] = "atom"

\* k whole frames of n atoms followed by m lines of a partial frame
TruncatedStore(lines, k, n, m) ==
    /\ n >= 1 /\ m >= 1 /\ m < n + 2
    /\ Len(lines) = k * (n + 2) + m
    /\ \A f \in 0..(k - 1) : WholeFrame(lines, f * (n + 2) + 1, n)
    /\ PartialFrame(lines, k * (n + 2) + 1, n, m)

\* C8: reconciling a store of k whole frames of N atoms followed by m lines
\* of a partial frame (0 < m < N + 2) leaves exactly the k whole frames in
\* the file, and reading it then gives k frames.
C8_TruncationCorrect ==
    [][\A j \in Jobs :
        Reconciles(j) /\ disk[j].trj.exists =>
            LET lines == disk[j].trj.lines IN
            \A k, n, m \in 0..Len(lines) :
                TruncatedStore(lines, k, n, m) =>
                    /\ job'[j].repaired
                    /\ disk'[j].trj = File(SubSeq(lines, 1, k * (n + 2)))
                    /\ Readable(disk'[j].trj)
                    /\ FrameCount(disk'[j].trj) = k]_vars

C8_Witness ==
    \E j \in Jobs :
        /\ Reconciled(j) /\ job[j].repaired
        /\ Readable(disk[j].trj)
        /\ FrameCount(disk[j].trj) >= 2
        /\ job[j].verdict = "resume"

reconcile(trj, atoms) ==
    IF config.prog = "naimless"
    THEN restart_md(trj, atoms, config.nsteps, config.stride)
    ELSE run_dyn_restart(trj, atoms, config.nsteps, config.stride)

\* C10: reconciling a second time, with no write in between, gives the step
\* count and the atoms the first reconciliation gave, whether the second run
\* starts from the atoms the first left or from the input structure again.
C10_Idempotent ==
    \A j \in Jobs :
        Reconciled(j) =>
            LET again == reconcile(disk[j].trj, job[j].atoms)
                anew == reconcile(disk[j].trj, InputAtoms(config.natoms))
            IN /\ again.nsteps = job[j].nsteps /\ again.atoms = job[j].atoms
               /\ anew.nsteps = job[j].nsteps /\ anew.atoms = job[j].atoms
               /\ again.trj = disk[j].trj

C10_Witness ==
    \E j \in Jobs :
        /\ Reconciled(j) /\ job[j].repaired
        /\ job[j].verdict = "resume"
        /\ job[j].atoms # InputAtoms(config.natoms)
        /\ job[j].nsteps < config.nsteps

\* ------------------------------------------------------------ observers
\* in one call of the observers, every a was called before every b
Before(log, as, bs) ==
    \A i, k \in 1..Len(log) : (log[i] \in as /\ log[k] \in bs) => i < k

Called(log, name) == \E i \in 1..Len(log) : log[i] = name

QMHooks == {"run_qm", "run_cp2k"}

\* the file ends with the lines of this frame
EndsWith(lines, frame) ==
    /\ Len(lines) >= Len(frame)
    /\ SubSeq(lines, Len(lines) - Len(frame) + 1, Len(lines)) = frame

\* C11 as stated: at every call of the observers the QM observer (when
\* attached) runs before the snapshot writer, and the snapshot writer
\* before the time log.
C11_AsStated ==
    \A j \in Jobs :
        /\ Before(job[j].fired, QMHooks, {"print_md_snapshot"})
        /\ Before(job[j].fired, {"print_md_snapshot"}, {"time_tracker"})

\* C11 (amended): at every call of the observers the QM observer (when
\* attached) runs before the snapshot writer, so the frame written then is
\* the atoms with the info['E'] and arrays['frc'] the QM observer left;
\* under naimless the time log runs after the snapshot writer, under
\* run_mace.py it runs first, before the QM observer and the snapshot writer.
C11_HookOrder ==
    \A j \in Jobs :
        /\ Before(job[j].fired, QMHooks, {"print_md_snapshot"})
        /\ config.prog = "naimless" =>
              Before(job[j].fired, {"print_md_snapshot"}, {"time_tracker"})
        /\ config.prog = "run_mace" =>
              Before(job[j].fired, {"time_tracker"}, QMHooks \cup {"print_md_snapshot"})
        /\ Called(job[j].fired, "print_md_snapshot") =>
              /\ EndsWith(disk[j].trj.lines, FrameLines(job[j].atoms))
              /\ Called(job[j].fired, "run_qm") =>
                    job[j].atoms.E = (IF job[j].qm = QMFailed THEN 0
                                      ELSE ml_energy(job[j].atoms) + job[j].qm[1])
              /\ Called(job[j].fired, "run_cp2k") /\ job[j].qm[1] > config.energy_tol =>
                    job[j].atoms.E = ml_energy(job[j].atoms) + job[j].qm[1]

C11_Witness ==
    \E j \in Jobs :
        /\ job[j].fired = <<"time_tracker", "run_cp2k", "print_md_snapshot", "MDLogger">>
        /\ job[j].qm = <<2, 1>>
        /\ job[j].dynsteps >= 1

\* the stepper of job j was run and has not raised
Running(j) ==
    /\ job[j].ran
    /\ job[j].outcome # "Failed"
    /\ job[j].pc \in {"stepping", "leave", "done"}

\* dyn.run of job j has returned after all its steps
RanToEnd(j) == Running(j) /\ job[j].pc = "done"

WritesAfterQM(j) ==
    /\ job'[j].written # job[j].written
    /\ \E i \in 1..Len(job'[j].fired) : job'[j].fired[i] \in QMHooks
    /\ job'[j].qm # QMFailed

Mismatch(q) == q[1] > config.energy_tol \/ q[2] > config.force_tol

\* the comment line of the last frame of a file of n-atom frames:
\* <<"cmt", cell, pbc, energy, forces, E, frc>>
LastComment(lines, n) == lines[Len(lines) - n]

QMEnergy(at, q) == ml_energy(at) + q[1]

QMForces(at, q) == ml_forces(at) + q[2]

QMFails(j) ==
    /\ job'[j].qm = QMFailed
    /\ job'[j].dynsteps # job[j].dynsteps \/ job'[j].ran # job[j].ran

IsFrame(frame) ==
    /\ frame # <<>>
    /\ frame[1][1] = "hdr"
    /\ Len(frame) = frame[1][2] + 2
    /\ WholeFrame(frame, 1, frame[1][2])

\* the first lines of the file, as many as the other has, are the other's
StartsWith(lines, head) ==
    /\ Len(head) <= Len(lines)
    /\ SubSeq(lines, 1, Len(head)) = head

\* C15: a job's trajectory file changes only by one whole frame being put
\* at its end, or, in the reconciler's repair, by lines being cut from its
\* end; it is never replaced.
C15_AppendOnly ==
    [][\A j \in Jobs :
        disk'[j].trj # disk[j].trj =>
            \/ /\ StartsWith(disk'[j].trj.lines, disk[j].trj.lines)
               /\ IsFrame(SubSeq(disk'[j].trj.lines, Len(disk[j].trj.lines) + 1,
                                 Len(disk'[j].trj.lines)))
            \/ /\ Reconciles(j) /\ job'[j].repaired
               /\ StartsWith(disk[j].trj.lines, disk'[j].trj.lines)]_vars

\* ---------------------------------------------------------- configuration
\* C16: with a configuration that lacks a required section (here the qm
\* section that run_md reads) no structure is read, no calculator is built
\* and no stepper runs.
C16_ConfigFailsFast ==
    config.qm = "missing" =>
        \A j \in Jobs :
            /\ job[j].atoms = NewJob.atoms
            /\ job[j].device = 0
            /\ ~job[j].ran

C18_PoolSize ==
    config.parallel =>
        /\ Cardinality(Procs) = config.ndevices
        /\ Cardinality({j \in Jobs : InFlight(j)}) <= config.ndevices
        /\ \A j \in Jobs : InFlight(j) => job[j].proc \in Procs /\ worker[job[j].proc].job = j

C18_Witness ==
    /\ config.parallel /\ config.ndevices = 2 /\ config.njobs > 2
    /\ Cardinality({j \in Jobs : InFlight(j)}) = 2
    /\ taskq # <<>>

\* ------------------------------------------------------------ round trip
\* the record a reader is to get for atoms written with their calculator
RecordOf(at) ==
    [pos |-> at.pos, vel |-> at.vel, cell |-> at.cell, pbc |-> at.pbc,
     energy |-> ml_energy(at), forces |-> ml_forces(at), E |-> at.E, frc |-> at.frc]

\* the same with positions and velocities as the column format keeps them
Rounded(rec) ==
    [rec EXCEPT !.pos = [a \in DOMAIN rec.pos |-> fmt(rec.pos[a])],
                !.vel = [a \in DOMAIN rec.vel |-> fmt(rec.vel[a])]]

\* job j's trajectory holds nothing but the frames its observers appended
OwnFramesOnly(j) ==
    /\ disk[j].base = 0
    /\ ~(config.script /\ config.restart)
    /\ job[j].written # <<>>

\* C19 as stated: reading a store to which N frames were appended, starting
\* from an empty store, gives N records equal to the values written, in the
\* order written.
C19_AsStated ==
    \A j \in Jobs :
        OwnFramesOnly(j) =>
            LET r == read(disk[j].trj.lines) IN
            /\ r.ok
            /\ Len(r.frames) = Len(job[j].written)
            /\ \A i \in 1..Len(r.frames) : r.frames[i] = RecordOf(job[j].written[i])

\* C19 (amended): reading a store to which N frames were appended, starting
\* from an empty store, gives N records in the order written, each equal to
\* the values written with positions and velocities rounded to the
\* resolution of the file's column format.
C19_RoundTrip ==
    \A j \in Jobs :
        OwnFramesOnly(j) =>
            LET r == read(disk[j].trj.lines) IN
            /\ r.ok
            /\ Len(r.frames) = Len(job[j].written)
            /\ \A i \in 1..Len(r.frames) :
                  r.frames[i] = Rounded(RecordOf(job[j].written[i]))

C19_Witness ==
    \E j \in Jobs :
        /\ OwnFramesOnly(j)
        /\ Len(job[j].written) >= 3
        /\ \E i \in 1..Len(job[j].written) :
              Rounded(RecordOf(job[j].written[i])) # RecordOf(job[j].written[i])

\* ------------------------------------------------------- remaining steps
\* the store is one of the job: readable, every frame with the atom count
\* of the job's structure
OwnStore(j) ==
    /\ Readable(disk[j].trj)
    /\ \A i \in 1..FrameCount(disk[j].trj) :
          Len(read(disk[j].trj.lines).frames[i].pos) = config.natoms

\* C20: with n frames in the store, n < floor(nsteps / stride), the
\* reconciliation leaves nsteps - n * stride steps to run, and the stepper
\* is run for exactly the steps the reconciliation left.
C20_RemainingSteps ==
    \A j \in Jobs :
        /\ (Reconciled(j) /\ OwnStore(j)
              /\ FrameCount(disk[j].trj) < config.nsteps \div config.stride) =>
              /\ job[j].nsteps = config.nsteps - FrameCount(disk[j].trj) * config.stride
              /\ job[j].pc = "run"
        /\ (config.restart /\ job[j].pc = "stepping") =>
              job[j].max_steps = job[j].nsteps
        /\ (config.restart /\ RanToEnd(j)) => job[j].dynsteps = job[j].nsteps

C20_Witness ==
    \E j \in Jobs :
        /\ config.restart /\ RanToEnd(j)
        /\ job[j].verdict = "resume"
        /\ config.stride = 2
        /\ job[j].nsteps = config.nsteps - 2
        /\ job[j].dynsteps = job[j].nsteps

\* ------------------------------------------------------------ seed state
\* the last record of job j's store
LastRecord(j) == read(disk[j].trj.lines).frames[FrameCount(disk[j].trj)]

\* C21: a job reconciled with a store of n >= 1 frames and not found complete
\* is resumed: positions, velocities, cell and periodic flags of its stepper
\* are those of the last record of the store, whatever the earlier records
\* hold; the rest of the atoms is as the input structure had it.
C21_SeedState ==
    \A j \in Jobs :
        (Reconciled(j) /\ OwnStore(j) /\ FrameCount(disk[j].trj) >= 1
            /\ job[j].verdict # "complete") =>
            /\ job[j].verdict = "resume"
            /\ job[j].atoms.pos = LastRecord(j).pos
            /\ job[j].atoms.vel = LastRecord(j).vel
            /\ job[j].atoms.cell = LastRecord(j).cell
            /\ job[j].atoms.pbc = LastRecord(j).pbc
            /\ job[j].atoms = seed(InputAtoms(config.natoms), LastRecord(j))

C21_Witness ==
    \E j \in Jobs :
        /\ Reconciled(j) /\ OwnStore(j) /\ job[j].verdict = "resume"
        /\ FrameCount(disk[j].trj) = 3
        /\ job[j].atoms.pos = LastRecord(j).pos
        /\ job[j].atoms.pos # read(disk[j].trj.lines).frames[1].pos
        /\ job[j].atoms.cell # InputAtoms(config.natoms).cell

\* ------------------------------------------------- corrupt-tail recovery
\* the store of job j holds whole frames of the job's atom count followed by
\* some lines of one more frame
CutTail(j) ==
    /\ disk[j].trj.exists
    /\ TruncatedStore(disk[j].trj.lines, Len(disk[j].trj.lines) \div (config.natoms + 2),
                      config.natoms, Len(disk[j].trj.lines) % (config.natoms + 2))

C23_StateUnchangedOnError ==
    [][\A j \in Jobs :
        (Reconciles(j) /\ job'[j].verdict = "new") =>
            /\ job'[j].atoms.pos = job[j].atoms.pos
            /\ job'[j].atoms.vel = job[j].atoms.vel
            /\ job'[j].atoms.cell = job[j].atoms.cell
            /\ job'[j].atoms.pbc = job[j].atoms.pbc
            /\ job'[j].atoms = InputAtoms(config.natoms)
            /\ config.prog = "naimless" => job'[j].nsteps = config.nsteps]_vars

\* the setters met a last frame with another atom count
C23_Witness ==
    \E j \in Jobs :
        /\ config.prog = "naimless"
        /\ Reconciled(j) /\ job[j].verdict = "new"
        /\ Readable(disk[j].trj) /\ FrameCount(disk[j].trj) >= 1
        /\ Len(LastRecord(j).pos) # config.natoms
        /\ LastRecord(j).cell # job[j].atoms.cell
        /\ job[j].nsteps = config.nsteps

\* ------------------------------------------------------ attempts and store
\* C24: a job whose stepper is started as a new simulation (no restart flag,
\* or a restart that fell back to "Starting new simulation") appends to a
\* store that holds nothing of an earlier attempt: the store holds the
\* frames of this run and no others.
C24_NoMixing ==
    \A j \in Jobs :
        (job[j].verdict \in {"fresh", "new"} /\ job[j].pc \in {"run", "stepping"}) =>
            Len(disk[j].trj.lines) = Len(job[j].written) * (config.natoms + 2)

\* ------------------------------------------------------ resume after a kill
\* the frames a run of nsteps steps from an empty store leaves
FramesOfFullRun == (config.nsteps \div config.stride) + 1

\* C25: with the stride dividing the step count, a job that was resumed on
\* the n frames an interrupted attempt left (0 < n < nsteps / stride) and ran
\* to its end has as many frames in its store as a run that was never
\* interrupted, and a further restart finds it complete.
C25_CrashResume ==
    \A j \in Jobs :
        (RanToEnd(j) /\ config.stride <= config.nsteps
            /\ config.nsteps % config.stride = 0) =>
            /\ (job[j].verdict = "fresh" /\ disk[j].base = 0) =>
                  /\ Readable(disk[j].trj)
                  /\ FrameCount(disk[j].trj) = FramesOfFullRun
            /\ (job[j].verdict = "resume" /\ job[j].nsteps > 0) =>
                  /\ Readable(disk[j].trj)
                  /\ FrameCount(disk[j].trj) = FramesOfFullRun
                  /\ reconcile(disk[j].trj, InputAtoms(config.natoms)).verdict = "complete"
                  /\ reconcile(disk[j].trj, InputAtoms(config.natoms)).nsteps = 0

C25_Witness ==
    \E j \in Jobs :
        /\ RanToEnd(j) /\ job[j].verdict = "resume"
        /\ config.nsteps = 4 /\ config.stride = 2 /\ job[j].nsteps = 2
        /\ job[j].repaired
        /\ FrameCount(disk[j].trj) = 3
        /\ reconcile(disk[j].trj, InputAtoms(config.natoms)).verdict = "complete"

\* ------------------------------------------------------ working directory
\* C26: while the batch runs, a process that is between two jobs is in the
\* directory the program was launched in (depth 0): every job, whether it
\* completed, was skipped or raised, leaves the working directory as it
\* found it.
C26_CwdRestored ==
    batch = "running" => \A w \in Procs : worker[w].job = 0 => worker[w].cwd = 0

\* ------------------------------------------------------ what a repair keeps
\* C27: a reconciliation that repairs the store leaves its whole frames as
\* they were, line for line and in order (the file becomes its own first
\* nsnapshots * (N + 2) lines); a store that could be read, and a missing
\* one, are left as they are.
C27_RepairKeepsHead ==
    [][\A j \in Jobs :
        Reconciles(j) =>
            LET old == disk[j].trj
                new == disk'[j].trj
            IN /\ (~old.exists \/ Readable(old)) => new = old /\ ~job'[j].repaired
               /\ job'[j].repaired =>
                    /\ new.exists
                    /\ StartsWith(old.lines, new.lines)
                    /\ Len(new.lines) = (Len(old.lines) \div (old.lines[1][2] + 2))
                                            * (old.lines[1][2] + 2)
               /\ ~job'[j].repaired => new = old]_vars

C27_Witness ==
    \E j \in Jobs :
        /\ Reconciled(j) /\ job[j].repaired
        /\ Readable(disk[j].trj) /\ FrameCount(disk[j].trj) = 3
        /\ Len(disk[j].trj.lines) < disk[j].base
        /\ disk[j].trj.lines = OldFrames(config.natoms, 3, 0, config.natoms)

\* ------------------------------------------- bounds of the remaining steps
\* C28: whatever the store holds, the step count a reconciliation leaves is
\* between 0 and nsteps, and it is 0, nsteps, or nsteps less a positive
\* multiple of the stride.
C28_RemainingBounds ==
    \A j \in Jobs :
        Reconciled(j) =>
            /\ 0 <= job[j].nsteps /\ job[j].nsteps <= config.nsteps
            /\ \/ job[j].nsteps = 0
               \/ job[j].nsteps = config.nsteps
               \/ \E m \in 1..config.nsteps :
                     job[j].nsteps = config.nsteps - m * config.stride

C28_Witness ==
    \E j \in Jobs :
        /\ Reconciled(j) /\ Readable(disk[j].trj)
        /\ config.prog = "naimless"
        /\ FrameCount(disk[j].trj) = 2 /\ config.stride = 1
        /\ job[j].nsteps = config.nsteps - 2
        /\ 0 < job[j].nsteps /\ job[j].nsteps < config.nsteps

\* ================================================================ job names
\* A structure path is a sequence of characters.  os.path.basename: what
\* follows the last "/".
RECURSIVE basename(_)
basename(path) ==
    IF \E i \in 1..Len(path) : path[i] = "/"
    THEN basename(Tail(path))
    ELSE path

\* str.split(".")[0]: what stands before the first "."
RECURSIVE first_field(_)
first_field(s) ==
    IF s = <<>> \/ Head(s) = "." THEN <<>>
    ELSE <<Head(s)>> \o first_field(Tail(s))

\* ase_io.py read_structure, lines 80-81 (run_mace.py line 135, mace_md.py
\* line 282): atoms.info["name"], the name of the job directory and of the
\* files in it
system_name(path) == first_field(basename(path))

\* the structure paths a configuration may list: a.x, b.x, d/a.x, a.p, a.1.x
StructurePaths ==
    { <<"a", ".", "x">>, <<"b", ".", "x">>, <<"d", "/", "a", ".", "x">>,
      <<"a", ".", "p">>, <<"a", ".", "1", ".", "x">> }

\* A batch looked at for its names only: every job reads its structure,
\* enters the directory of its name, appends a frame to the trajectory there
\* and leaves.  Here disk maps a name to its directory: the processes inside
\* and, for the trajectory, the jobs whose frames it holds, in order.  A pool
\* batch is no longer than the device list (see mace_md_main).
InitNames ==
    /\ \E parallel \in BOOLEAN, njobs \in 2..MaxJobs, ndevices \in 1..MaxDevices :
        /\ \E paths \in [1..njobs -> StructurePaths] :
              config = [paths |-> paths] @@
                       Config("naimless", parallel, FALSE, njobs, ndevices, 1, 1, 1,
                              FALSE, 0, "none") @@ Options("none", FALSE)
        /\ parallel => njobs <= ndevices
    /\ batch = "init"
    /\ firsterr = 0
    /\ taskq = <<>>
    /\ worker = [w \in 0..config.ndevices |-> IdleWorker]
    /\ job = [j \in 1..config.njobs |-> [name |-> <<>>] @@ NewJob]
    /\ disk = [n \in { system_name(config.paths[j]) : j \in 1..config.njobs } |->
                 [inside |-> {}, trj |-> <<>>]]

\* main.py run_md, lines 99-100, and ase_io.py read_structure, lines 76-82
read_structure(j) ==
    /\ job[j].pc = "read"
    /\ job' = [job EXCEPT ![j].pc = "enter",
                          ![j].atoms = InputAtoms(config.natoms),
                          ![j].name = system_name(config.paths[j])]
    /\ UNCHANGED <<config, batch, firsterr, taskq, worker, disk>>

\* mace_md.py run_md, lines 195-197: os.makedirs(root_name, exist_ok=True)
\* and os.chdir(root_name)
makedirs_chdir(j) ==
    /\ job[j].pc = "enter"
    /\ job' = [job EXCEPT ![j].pc = "run"]
    /\ disk' = [disk EXCEPT ![job[j].name].inside = @ \cup {j}]
    /\ worker' = [worker EXCEPT ![job[j].proc].cwd = cwd_of(j) + 1]
    /\ UNCHANGED <<config, batch, firsterr, taskq>>

\* mace_md.py print_md_snapshot, lines 210-212, as dyn.run calls it:
\* a frame is appended to <name>.trj.xyz of the working directory
append_snapshot(j) ==
    /\ job[j].pc = "run"
    /\ job' = [job EXCEPT ![j].pc = "stepping", ![j].ran = TRUE]
    /\ disk' = [disk EXCEPT ![job[j].name].trj = Append(@, j)]
    /\ UNCHANGED <<config, batch, firsterr, taskq, worker>>

\* mace_md.py run_md, line 205: os.chdir('..'), and the job returns
chdir_back(j) ==
    /\ job[j].pc = "stepping"
    /\ Returns(j, [job[j] EXCEPT !.outcome = "Completed"], cwd_of(j) - 1)
    /\ disk' = [disk EXCEPT ![job[j].name].inside = @ \ {j}]
    /\ UNCHANGED <<config, batch, firsterr, taskq>>

NextNames ==
    \/ md_parallel_batch
    \/ main_serial
    \/ \E w \in Procs : take_chunk(w)
    \/ \E w \in Procs : start_task(w)
    \/ pool_return
    \/ main_return
    \/ \E j \in Jobs : read_structure(j)
    \/ \E j \in Jobs : makedirs_chdir(j)
    \/ \E j \in Jobs : append_snapshot(j)
    \/ \E j \in Jobs : chdir_back(j)

SpecNames == InitNames /\ [][NextNames]_vars

\* --------------------------------------------------------- store ownership
DistinctPaths ==
    \A i, j \in Jobs : i # j => config.paths[i] # config.paths[j]

Named(j) == job[j].pc \notin {"queued", "read"}

\* C29: in a batch whose structure paths are pairwise distinct the jobs have
\* pairwise distinct names: no two of them are in the same job directory at
\* once and no trajectory holds the frames of two of them.
C29_ExclusiveStores ==
    DistinctPaths =>
        /\ \A i, j \in Jobs :
              (i # j /\ Named(i) /\ Named(j)) => job[i].name # job[j].name
        /\ \A n \in DOMAIN disk :
              /\ Cardinality(disk[n].inside) <= 1
              /\ \A a, b \in 1..Len(disk[n].trj) : disk[n].trj[a] = disk[n].trj[b]

\* ----------------------------------------------------- dispatch of the batch
\* job j's function has been called
Started(j) == job[j].proc # -1

\* C30: when the batch call has ended, in the pool and in the serial loop,
\* every job of the batch has been started (none was dropped); a job is
\* handed to one process only.
C30_DispatchedOnce ==
    /\ BatchEnded => \A j \in Jobs : Started(j)
    /\ \A j \in Jobs : Started(j) => job[j].proc \in Procs
    /\ \A w \in Procs : worker[w].job # 0 => job[worker[w].job].proc = w

====
